---- MODULE Spec2Model ----
(***************************************************************************)
(* A model of reorder_notes.py: the annotation parser (parse_fdf_notes),   *)
(* the page reorderer (reorder_notes_on_page) and the report writer        *)
(* (write_reordered_notes).                                                *)
(*                                                                         *)
(* Representation.                                                         *)
(*  - A Python str is a sequence of one-character strings.                 *)
(*  - A float coordinate is held as an integer number of half points, so   *)
(*    that the two halvings of the code (page_width / 2, (x1 + x2) / 2)    *)
(*    are exact on the values drawn: page widths and rectangle corners are *)
(*    whole points (even numbers of half points).                          *)
(*  - A note is the tuple <<text, x_center, y_top>> of the code; Python's  *)
(*    note[0], note[1], note[2] are note[1], note[2], note[3] here.        *)
(*  - A dict is the sequence of its <<key, value>> items in insertion      *)
(*    order, keys pairwise distinct.                                       *)
(***************************************************************************)
EXTENDS Integers, Sequences, FiniteSets, TLC

VARIABLES
    \* reorder_notes_on_page
    notes,          \* argument: list of notes
    page_width,     \* argument: page width
    left_column,    \* local
    right_column,   \* local
    reordered,      \* the returned list of texts
    rpc,            \* position in reorder_notes_on_page
    \* write_reordered_notes
    notes_by_page,    \* argument: dict page -> list of notes
    page_dimensions,  \* argument: dict page -> <<width, height>>
    file,             \* the characters written to output_path so far
    handle,           \* the output file handle: "unopened", "open", "closed"
    todo,             \* pages the for loop of line 81 has still to visit
    page_num,         \* loop variable of line 81
    reordered_notes,  \* texts the for loop of line 89 has still to write
    error,            \* the exception in flight, or NoError
    wpc,              \* position in write_reordered_notes
    \* parse_fdf_notes
    fdf_data,         \* the decoded file: a list of records, each a list of fields
    pos,              \* index of the first field finditer has not consumed
    match,            \* groups of the match the loop of line 31 is at, or <<>>
    content,          \* local of lines 34-37
    parsed,           \* the notes_by_page being built and returned
    ppc               \* position in parse_fdf_notes

reorderVars == <<notes, page_width, left_column, right_column, reordered, rpc>>

writeVars == <<notes_by_page, page_dimensions, file, handle, todo, page_num,
               reordered_notes, error, wpc>>

parseVars == <<fdf_data, pos, match, content, parsed, ppc>>

vars == <<reorderVars, writeVars, parseVars>>

----------------------------------------------------------------------------
(* Bounds *)

\* longest note list handed to reorder_notes_on_page
MaxNotes == 3
\* largest y_top, in half points
MaxY == 1

----------------------------------------------------------------------------
(* Strings *)

DigitChars == <<"0", "1", "2", "3", "4", "5", "6", "7", "8", "9">>

\* str(n) for 0 <= n <= 99
RECURSIVE Str(_)
Str(n) == IF n < 10 THEN <<DigitChars[n + 1]>>
          ELSE Str(n \div 10) \o <<DigitChars[(n % 10) + 1]>>

----------------------------------------------------------------------------
(* reorder_notes_on_page *)

\* column_split = page_width / 2
ColumnSplit(w) == w \div 2

IsLeftInclusive(note, w) == note[2] <= ColumnSplit(w)

\* the test `note[1] < column_split`
IsLeft(note, w) == note[2] < ColumnSplit(w)

SortKeyAscending(note) == note[3]

\* key=lambda x: -x[2]
SortKey(note) == -note[3]

\* list.sort(key=...) is stable: an element is placed after every element
\* already there whose key is not greater than its own.
RECURSIVE InsertSorted(_, _)
InsertSorted(sorted, note) ==
    IF sorted = <<>> THEN <<note>>
    ELSE IF SortKey(sorted[Len(sorted)]) <= SortKey(note)
         THEN Append(sorted, note)
         ELSE Append(InsertSorted(SubSeq(sorted, 1, Len(sorted) - 1), note),
                     sorted[Len(sorted)])

RECURSIVE Sort(_)
Sort(s) == IF s = <<>> THEN <<>>
           ELSE InsertSorted(Sort(SubSeq(s, 1, Len(s) - 1)), s[Len(s)])

\* the loop of lines 63-67
LeftOf(ns, w) == SelectSeq(ns, LAMBDA n : IsLeft(n, w))
RightOf(ns, w) == SelectSeq(ns, LAMBDA n : ~IsLeft(n, w))

TextsOf(ns) == [i \in 1..Len(ns) |-> ns[i][1]]

CombineRightFirst(left, right) == TextsOf(right \o left)

\* [note[0] for note in left_column + right_column]
Combine(left, right) == TextsOf(left \o right)

\* the whole function, as write_reordered_notes calls it
ReorderNotesOnPage(ns, w) == Combine(Sort(LeftOf(ns, w)), Sort(RightOf(ns, w)))

\* Inputs.  The text of the i-th note is distinct from the others', so that an
\* output line identifies the note it came from.
\* x_center left of, on and right of the thresholds of the two widths
XCenters == {-1, 0, 1, 2}
YTops == 0..MaxY
PageWidths == {0, 2}
NoteText(i) == <<"n">> \o Str(i)

ReorderStart ==
    /\ \E n \in 0..MaxNotes :
          \E xy \in [1..n -> XCenters \X YTops] :
              notes = [i \in 1..n |-> <<NoteText(i), xy[i][1], xy[i][2]>>]
    /\ page_width \in PageWidths
    /\ left_column = <<>>
    /\ right_column = <<>>
    /\ reordered = <<>>
    /\ rpc = "split"

\* lines 57-67
Partition ==
    /\ rpc = "split"
    /\ left_column' = LeftOf(notes, page_width)
    /\ right_column' = RightOf(notes, page_width)
    /\ rpc' = "sort"
    /\ UNCHANGED <<notes, page_width, reordered, writeVars, parseVars>>

\* lines 70-71
SortColumns ==
    /\ rpc = "sort"
    /\ left_column' = Sort(left_column)
    /\ right_column' = Sort(right_column)
    /\ rpc' = "combine"
    /\ UNCHANGED <<notes, page_width, reordered, writeVars, parseVars>>

\* line 74
Return ==
    /\ rpc = "combine"
    /\ reordered' = Combine(left_column, right_column)
    /\ rpc' = "returned"
    /\ UNCHANGED <<notes, page_width, left_column, right_column, writeVars,
                   parseVars>>

ReorderIdle ==
    /\ notes = <<>>
    /\ page_width = 0
    /\ left_column = <<>>
    /\ right_column = <<>>
    /\ reordered = <<>>
    /\ rpc = "idle"

----------------------------------------------------------------------------
(* Claims about reorder_notes_on_page *)

\* position of the text of input note i in the returned list (0 if absent)
OutPos(i) ==
    IF \E k \in 1..Len(reordered) : reordered[k] = notes[i][1]
    THEN CHOOSE k \in 1..Len(reordered) : reordered[k] = notes[i][1]
    ELSE 0

\* x_center < page_width / 2, stated on the doubled values
InLeftHalf(i) == 2 * notes[i][2] < page_width

OutputIsPermutation ==
    /\ Len(reordered) = Len(notes)
    /\ \A i \in 1..Len(notes) : OutPos(i) > 0

\* C1: in the returned list the text of every note with x_center <
\* page_width/2 comes before the text of every note with x_center >=
\* page_width/2, whatever their y_top values; every note's text is returned.
C1_LeftBeforeRight ==
    rpc = "returned" =>
        /\ OutputIsPermutation
        /\ \A i, j \in 1..Len(notes) :
              (InLeftHalf(i) /\ ~InLeftHalf(j)) => OutPos(i) < OutPos(j)

\* a returned list where a left-column note was given after, and lies lower
\* on the page than, a right-column note
C1_Witness ==
    /\ rpc = "returned"
    /\ \E i, j \in 1..Len(notes) :
          /\ InLeftHalf(i) /\ ~InLeftHalf(j)
          /\ j < i
          /\ notes[i][3] < notes[j][3]

InSeq(x, s) == \E k \in 1..Len(s) : s[k] = x

\* C2: a note is put in left_column iff x_center < page_width/2 and in
\* right_column otherwise; x_center = page_width/2 goes right; with
\* page_width = 0 every x_center >= 0 goes right.
C2_Classification ==
    rpc # "split" =>
        \A i \in 1..Len(notes) :
            /\ InSeq(notes[i], left_column) <=> InLeftHalf(i)
            /\ InSeq(notes[i], right_column) <=> ~InLeftHalf(i)
            /\ (2 * notes[i][2] = page_width) => InSeq(notes[i], right_column)
            /\ (page_width = 0 /\ notes[i][2] >= 0) =>
                   InSeq(notes[i], right_column)

\* a partition of a zero-width page holding a note on the threshold, a note
\* right of it and a note left of it
C2_Witness ==
    /\ rpc = "sort"
    /\ page_width = 0
    /\ \E i, j, k \in 1..Len(notes) :
          /\ notes[i][2] = 0 /\ InSeq(notes[i], right_column)
          /\ notes[j][2] > 0 /\ InSeq(notes[j], right_column)
          /\ notes[k][2] < 0 /\ InSeq(notes[k], left_column)

\* C3: two notes of one column come out in descending y_top order, and two
\* notes of one column with equal y_top come out in their input order.
C3_DescendingStable ==
    rpc = "returned" =>
        \A i, j \in 1..Len(notes) :
            (InLeftHalf(i) <=> InLeftHalf(j)) =>
                /\ (notes[i][3] > notes[j][3]) => OutPos(i) < OutPos(j)
                /\ (notes[i][3] = notes[j][3] /\ i < j) => OutPos(i) < OutPos(j)

\* a returned list for a column in which a lower note was given before a
\* higher one, and two notes share a y_top
C3_Witness ==
    /\ rpc = "returned"
    /\ \E i, j, k \in 1..Len(notes) :
          /\ InLeftHalf(i) = InLeftHalf(j) /\ InLeftHalf(j) = InLeftHalf(k)
          /\ i < j /\ notes[i][3] < notes[j][3]
          /\ k # i /\ k # j
          /\ notes[k][3] = notes[i][3] \/ notes[k][3] = notes[j][3]

----------------------------------------------------------------------------
(* str and dict operations *)

\* s.replace(old, new), old non-empty: the occurrences of old are found from
\* the left and do not overlap
RECURSIVE Replace(_, _, _)
Replace(s, old, new) ==
    IF Len(s) < Len(old) THEN s
    ELSE IF SubSeq(s, 1, Len(old)) = old
         THEN new \o Replace(SubSeq(s, Len(old) + 1, Len(s)), old, new)
         ELSE <<s[1]>> \o Replace(Tail(s), old, new)

\* s.split(c) for a one-character separator c
RECURSIVE Split(_, _)
Split(s, c) ==
    IF \A k \in 1..Len(s) : s[k] # c THEN <<s>>
    ELSE LET k == CHOOSE k \in 1..Len(s) :
                      s[k] = c /\ \A m \in 1..(k - 1) : s[m] # c
         IN  <<SubSeq(s, 1, k - 1)>> \o Split(SubSeq(s, k + 1, Len(s)), c)

\* s.endswith(c) for a one-character c
EndsWith(s, c) == Len(s) > 0 /\ s[Len(s)] = c

\* d.keys(), in insertion order
Keys(d) == [i \in 1..Len(d) |-> d[i][1]]

\* key in d
Has(d, k) == \E i \in 1..Len(d) : d[i][1] = k

\* d[k] for a key that is present
Get(d, k) == d[CHOOSE i \in 1..Len(d) : d[i][1] = k][2]

LookupDefault(d, k) == IF Has(d, k) THEN <<"ok", Get(d, k)>>
                       ELSE <<"ok", <<0, 0>>>>

\* d[k]: the value, or the KeyError that names k
Lookup(d, k) == IF Has(d, k) THEN <<"ok", Get(d, k)>> ELSE <<"KeyError", k>>

RECURSIVE InsertInt(_, _)
InsertInt(sorted, n) ==
    IF sorted = <<>> THEN <<n>>
    ELSE IF sorted[Len(sorted)] <= n THEN Append(sorted, n)
         ELSE Append(InsertInt(SubSeq(sorted, 1, Len(sorted) - 1), n),
                     sorted[Len(sorted)])

RECURSIVE SortInts(_)
SortInts(s) == IF s = <<>> THEN <<>>
               ELSE InsertInt(SortInts(SubSeq(s, 1, Len(s) - 1)), s[Len(s)])

InsertionOrder(d) == Keys(d)

\* sorted(notes_by_page.keys())
SortedKeys(d) == SortInts(Keys(d))

\* max(notes_by_page.keys())
MaxKey(d) == CHOOSE k \in {d[i][1] : i \in 1..Len(d)} :
                 \A i \in 1..Len(d) : d[i][1] <= k

----------------------------------------------------------------------------
(* The data handed to write_reordered_notes *)

HighlightLabel == <<"*", " ", "H", "i", "g", "h", "l", "i", "g", "h", "t", ",",
                    " ", "p", "a", "g", "e", " ">>

\* f"* Highlight, page {page}\n{content}"
NoteTextOf(page, c) == HighlightLabel \o Str(page) \o <<"\n">> \o c

\* lines 39-40 and 47: notes_by_page[page].append(note), the list created on
\* the page's first note
AddNote(d, page, note) ==
    IF Has(d, page)
    THEN [i \in 1..Len(d) |->
             IF d[i][1] = page THEN <<page, Append(d[i][2], note)>> ELSE d[i]]
    ELSE Append(d, <<page, <<note>>>>)

\* the dict built from the matches <<page, content, x_center, y_top>> in the
\* order parse_fdf_notes meets them
RECURSIVE NotesByPageOf(_)
NotesByPageOf(ms) ==
    IF ms = <<>> THEN <<>>
    ELSE LET m == ms[Len(ms)]
         IN  AddNote(NotesByPageOf(SubSeq(ms, 1, Len(ms) - 1)), m[1],
                     <<NoteTextOf(m[1], m[2]), m[3], m[4]>>)

\* extract_page_dimensions: the pages of the PDF are numbered from 1
ExtractPageDimensions(mediaboxes) ==
    [i \in 1..Len(mediaboxes) |-> <<i, mediaboxes[i]>>]

\* most notes in the dict handed to the writer
MaxMatches == 3
\* longest note content in the content-rich inputs
MaxContentLen == 2

\* the pages notes lie on
NotePages == {1, 2, 3}

\* Layouts: the i-th note met has the content str(i) and lies above the
\* notes met before it, on any page, left or right of the middle of a page
\* one point wide.
LayoutStart ==
    \E n \in 0..MaxMatches :
        \E px \in [1..n -> NotePages \X {0, 1}] :
            notes_by_page =
                NotesByPageOf([i \in 1..n |->
                                  <<px[i][1], Str(i), px[i][2], 2 * i>>])

\* Contents: a single note with any content over the letters a, ? and
\* newline.
ContentStart ==
    \E p \in NotePages :
        \E k \in 0..MaxContentLen :
            \E c \in [1..k -> {"a", "?", "\n"}] :
                notes_by_page = NotesByPageOf(<<<<p, c, 0, 0>>>>)

\* the PDF has up to three pages, each of width 0 or 1 point
MediaBoxesStart ==
    \E n \in 0..3 :
        \E w \in [1..n -> {0, 2}] :
            page_dimensions =
                ExtractPageDimensions([i \in 1..n |-> <<w[i], 4>>])

NoError == <<"none">>

WriteStart ==
    /\ (LayoutStart \/ ContentStart)
    /\ MediaBoxesStart
    /\ file = <<>>
    /\ handle = "unopened"
    /\ todo = <<>>
    /\ page_num = 0
    /\ reordered_notes = <<>>
    /\ error = NoError
    /\ wpc = "open"

WriteIdle ==
    /\ notes_by_page = <<>>
    /\ page_dimensions = <<>>
    /\ file = <<>>
    /\ handle = "unopened"
    /\ todo = <<>>
    /\ page_num = 0
    /\ reordered_notes = <<>>
    /\ error = NoError
    /\ wpc = "idle"

----------------------------------------------------------------------------
(* write_reordered_notes *)

PageHeader(p) == <<"P", "a", "g", "e", " ">> \o Str(p) \o <<"\n">>

Dashes == <<"-", "-", "-", "-", "-", "-", "-", "-", "-", "-">>

\* "\n----------\n\n"
Separator == <<"\n">> \o Dashes \o <<"\n", "\n">>

CleanUpAlways(c) == Replace(c, <<"?">>, <<>>)

\* lines 94-95
CleanUp(c) ==
    IF ~EndsWith(c, "?") THEN Replace(c, <<"?">>, <<>>)
    ELSE c

\* lines 91-97: what is written for one reordered note
NoteLine(note) == <<"-", " ">> \o CleanUp(Split(note, "\n")[2]) \o <<"\n">>

HandleLeakedOnError(h, e) == IF e = NoError THEN "closed" ELSE h

\* the handle when the with statement of line 80 is left: closed, whether the
\* suite ended or raised
HandleOnExit(h, e) == "closed"

\* line 80: open(output_path, 'w') truncates the file; line 81 sorts the keys
Open ==
    /\ wpc = "open"
    /\ handle' = "open"
    /\ file' = <<>>
    /\ todo' = SortedKeys(notes_by_page)
    /\ wpc' = "loop"
    /\ UNCHANGED <<notes_by_page, page_dimensions, page_num, reordered_notes,
                   error, reorderVars, parseVars>>

\* lines 81-83: the next page, its width and its reordered notes; a page
\* without dimensions raises KeyError
NextPage ==
    /\ wpc = "loop"
    /\ todo # <<>>
    /\ page_num' = Head(todo)
    /\ todo' = Tail(todo)
    /\ LET dims == Lookup(page_dimensions, Head(todo))
       IN  IF dims[1] = "ok"
           THEN /\ reordered_notes' =
                       ReorderNotesOnPage(Get(notes_by_page, Head(todo)),
                                          dims[2][1])
                /\ wpc' = "header"
                /\ error' = error
           ELSE /\ error' = dims
                /\ wpc' = "exit"
                /\ reordered_notes' = reordered_notes
    /\ UNCHANGED <<notes_by_page, page_dimensions, file, handle, reorderVars,
                   parseVars>>

\* line 86
WriteHeader ==
    /\ wpc = "header"
    /\ file' = file \o PageHeader(page_num)
    /\ wpc' = "notes"
    /\ UNCHANGED <<notes_by_page, page_dimensions, handle, todo, page_num,
                   reordered_notes, error, reorderVars, parseVars>>

\* lines 89-97, one iteration
WriteNote ==
    /\ wpc = "notes"
    /\ reordered_notes # <<>>
    /\ file' = file \o NoteLine(Head(reordered_notes))
    /\ reordered_notes' = Tail(reordered_notes)
    /\ UNCHANGED <<notes_by_page, page_dimensions, handle, todo, page_num,
                   error, wpc, reorderVars, parseVars>>

\* lines 100-101: the page's notes are written
EndPage ==
    /\ wpc = "notes"
    /\ reordered_notes = <<>>
    /\ file' = IF page_num # MaxKey(notes_by_page) THEN file \o Separator
               ELSE file
    /\ wpc' = "loop"
    /\ UNCHANGED <<notes_by_page, page_dimensions, handle, todo, page_num,
                   reordered_notes, error, reorderVars, parseVars>>

\* the for loop of line 81 is exhausted
EndLoop ==
    /\ wpc = "loop"
    /\ todo = <<>>
    /\ wpc' = "exit"
    /\ UNCHANGED <<notes_by_page, page_dimensions, file, handle, todo,
                   page_num, reordered_notes, error, reorderVars, parseVars>>

\* leaving the with statement of line 80, then returning or re-raising
Exit ==
    /\ wpc = "exit"
    /\ handle' = HandleOnExit(handle, error)
    /\ wpc' = IF error = NoError THEN "returned" ELSE "raised"
    /\ UNCHANGED <<notes_by_page, page_dimensions, file, todo, page_num,
                   reordered_notes, error, reorderVars, parseVars>>

----------------------------------------------------------------------------
(* Claims about write_reordered_notes *)

\* the lines of the output file; the last element is what follows the last
\* newline
FileLines == Split(file, "\n")

IsHeaderLine(l) == Len(l) > 5 /\ SubSeq(l, 1, 5) = <<"P", "a", "g", "e", " ">>
IsNoteLine(l) == Len(l) >= 2 /\ l[1] = "-" /\ l[2] = " "

\* the page number a header line names
PageOfHeader(l) ==
    CHOOSE p \in 0..99 : Str(p) = SubSeq(l, 6, Len(l))

\* page numbers of the header lines, in file order
HeaderPages ==
    LET hs == SelectSeq(FileLines, IsHeaderLine)
    IN  [i \in 1..Len(hs) |-> PageOfHeader(hs[i])]

\* the note lines of the file without their "- " prefix, in file order
NoteLinesWritten ==
    LET ns == SelectSeq(FileLines, IsNoteLine)
    IN  [i \in 1..Len(ns) |-> SubSeq(ns[i], 3, Len(ns[i]))]

DashLineIndexes ==
    LET lines == FileLines IN {k \in 1..Len(lines) : lines[k] = Dashes}

KeySet(d) == {d[i][1] : i \in 1..Len(d)}

\* C4: after a successful write the header lines name the pages of
\* notes_by_page in ascending order, each once; every header but the first is
\* preceded by a blank line, ten dashes and a blank line; and there are no
\* other dash lines, so none follows the last page.
C4_AscendingPagesAndSeparators ==
    wpc = "returned" =>
        LET lines == FileLines
            hp == HeaderPages
        IN  /\ Len(hp) = Len(notes_by_page)
            /\ {hp[i] : i \in 1..Len(hp)} = KeySet(notes_by_page)
            /\ \A i, j \in 1..Len(hp) : i < j => hp[i] < hp[j]
            /\ \A k \in 1..Len(lines) :
                  (IsHeaderLine(lines[k]) /\ k > 1) =>
                      /\ k > 4
                      /\ lines[k - 1] = <<>>
                      /\ lines[k - 2] = Dashes
                      /\ lines[k - 3] = <<>>
            /\ Cardinality(DashLineIndexes) =
                  IF Len(notes_by_page) = 0 THEN 0
                  ELSE Len(notes_by_page) - 1

\* a finished report of two pages that were inserted in descending order
C4_Witness ==
    /\ wpc = "returned"
    /\ Len(notes_by_page) >= 2
    /\ notes_by_page[1][1] > notes_by_page[2][1]
    /\ Cardinality(DashLineIndexes) >= 1

MissingPages == {p \in KeySet(notes_by_page) : ~Has(page_dimensions, p)}

FirstMissing == CHOOSE p \in MissingPages : \A q \in MissingPages : p <= q

NotesBefore(p) ==
    {<<i, j>> \in (1..Len(notes_by_page)) \X (1..(MaxMatches + 1)) :
        notes_by_page[i][1] < p /\ j <= Len(notes_by_page[i][2])}

\* C5: the write raises iff a page of notes_by_page has no dimensions; the
\* error is the KeyError of the numerically first such page; and the file
\* never holds a header for that page or a later one, nor any note line or
\* dash line beyond those of the pages before it.
C5_MissingPageAborts ==
    /\ (wpc = "returned") => MissingPages = {}
    /\ (wpc = "raised") => MissingPages # {}
    /\ (error # NoError) =>
          /\ MissingPages # {}
          /\ error = <<"KeyError", FirstMissing>>
    /\ (MissingPages # {}) =>
          /\ LET hp == HeaderPages
             IN  \A i \in 1..Len(hp) : hp[i] < FirstMissing
          /\ Len(NoteLinesWritten) <= Cardinality(NotesBefore(FirstMissing))
          /\ Cardinality(DashLineIndexes) <=
                Cardinality({p \in KeySet(notes_by_page) : p < FirstMissing})
          /\ (error # NoError) =>
                /\ Len(NoteLinesWritten) =
                      Cardinality(NotesBefore(FirstMissing))
                /\ Len(HeaderPages) =
                      Cardinality({p \in KeySet(notes_by_page) :
                                      p < FirstMissing})

\* a write that raised after writing an earlier page, with a page after the
\* missing one left unwritten
C5_Witness ==
    /\ wpc = "raised"
    /\ Len(HeaderPages) >= 1
    /\ \E p \in KeySet(notes_by_page) : p > FirstMissing

\* C6: when write_reordered_notes has returned or raised, the handle it
\* opened is closed.
C6_HandleClosedOnExit ==
    wpc \in {"returned", "raised"} => handle = "closed"

\* a write that raised after an earlier page was written
C6_Witness ==
    /\ wpc = "raised"
    /\ handle = "closed"
    /\ Len(HeaderPages) >= 1

\* the content line of a note text: the line after the label line
ContentLineOf(text) == Split(text, "\n")[2]

\* the whole content of a note text of page p: what follows the label line
WholeContentOf(text, p) ==
    SubSeq(text, Len(HighlightLabel) + Len(Str(p)) + 2, Len(text))

\* a content line as C7 wants it written
Cleaned(c) ==
    IF c # <<>> /\ c[Len(c)] = "?" THEN c
    ELSE SelectSeq(c, LAMBDA ch : ch # "?")

\* the texts of all notes in the order of a complete report, each paired
\* with its page
RECURSIVE ReportOrder(_)
ReportOrder(pages) ==
    IF pages = <<>> THEN <<>>
    ELSE LET p == Head(pages)
             w == IF Has(page_dimensions, p)
                  THEN Get(page_dimensions, p)[1] ELSE 0
             ts == ReorderNotesOnPage(Get(notes_by_page, p), w)
         IN  [i \in 1..Len(ts) |-> <<ts[i], p>>] \o ReportOrder(Tail(pages))

IsPrefix(s, t) == Len(s) <= Len(t) /\ s = SubSeq(t, 1, Len(s))

\* C7: every note line written is the note's content line unmodified when
\* that line ends with `?`, and the content line with every `?` removed
\* otherwise; a successful write has written a line for every note.
C7_QuestionMarkCleanup ==
    LET order == ReportOrder(SortedKeys(notes_by_page))
        want == [i \in 1..Len(order) |-> Cleaned(ContentLineOf(order[i][1]))]
    IN  /\ IsPrefix(NoteLinesWritten, want)
        /\ (wpc = "returned") => NoteLinesWritten = want

\* a finished report whose only note had the content `?a` and was written
\* as `a`
C7_Witness ==
    /\ wpc = "returned"
    /\ \E i \in 1..Len(notes_by_page) :
          \E j \in 1..Len(notes_by_page[i][2]) :
              LET c == ContentLineOf(notes_by_page[i][2][j][1])
              IN  /\ c = <<"?", "a">>
                  /\ NoteLinesWritten = <<<<"a">>>>

\* C9: after a successful write the note lines are, in report order, `- `
\* followed by the cleaned-up whole content of each note, the whole content
\* being the note text without its label line.
C9_WholeContentPrinted ==
    LET order == ReportOrder(SortedKeys(notes_by_page))
        want == [i \in 1..Len(order) |->
                    Cleaned(WholeContentOf(order[i][1], order[i][2]))]
    IN  (wpc = "returned") => NoteLinesWritten = want

----------------------------------------------------------------------------
(* parse_fdf_notes *)

(* The file is read as a list of records (annotation objects), each a list  *)
(* of fields.  A field is one piece of text that a part of the pattern of   *)
(* lines 24-27 can match, or any other attribute:                           *)
(*   <<"Highlight">>            /Type/Annot/Subtype/Highlight               *)
(*   <<"Rect", x1, y1, x2, y2>> /Rect[x1 y1 x2 y2], four unsigned decimals  *)
(*   <<"Page", n>>              /Page n                                     *)
(*   <<"Contents", c>>          /Contents(c), c matching the contents group *)
(*   <<"Other">>                anything else                               *)
(* The pattern does not see where a record ends: it runs over the fields of *)
(* all records in file order.                                               *)

RECURSIVE Flatten(_)
Flatten(records) ==
    IF records = <<>> THEN <<>> ELSE Head(records) \o Flatten(Tail(records))

\* index of the first field of the given kind at or after index from, or 0
FirstField(fields, kind, from) ==
    IF \E k \in from..Len(fields) : fields[k][1] = kind
    THEN CHOOSE k \in from..Len(fields) :
             /\ fields[k][1] = kind
             /\ \A m \in from..(k - 1) : fields[m][1] # kind
    ELSE 0

\* the contents group of line 27, matched against a whole string:
\* (?:[^()\\]|\\.|\((?:[^()\\]|\\.)*\))*
RECURSIVE MatchesNested(_), MatchesContents(_)
MatchesNested(s) ==
    IF s = <<>> THEN FALSE
    ELSE IF s[1] = ")" THEN MatchesContents(Tail(s))
    ELSE IF s[1] = "(" THEN FALSE
    ELSE IF s[1] = "\\" THEN Len(s) >= 2 /\ MatchesNested(SubSeq(s, 3, Len(s)))
    ELSE MatchesNested(Tail(s))

MatchesContents(s) ==
    IF s = <<>> THEN TRUE
    ELSE IF s[1] = ")" THEN FALSE
    ELSE IF s[1] = "(" THEN MatchesNested(Tail(s))
    ELSE IF s[1] = "\\" THEN Len(s) >= 2 /\ MatchesContents(SubSeq(s, 3, Len(s)))
    ELSE MatchesContents(Tail(s))

\* One step of re.finditer over the fields from index from on.  The match
\* starts at the first highlight marker; each lazy `.*?` (with re.DOTALL)
\* runs to the first rectangle after the marker, the first page number after
\* that rectangle and the first contents after that page number, whatever
\* lies between.  The result is the six groups and the index after the
\* match, or <<>> when a part is missing (then nothing later matches either).
FindMatch(fields, from) ==
    LET h == FirstField(fields, "Highlight", from)
        r == IF h = 0 THEN 0 ELSE FirstField(fields, "Rect", h + 1)
        g == IF r = 0 THEN 0 ELSE FirstField(fields, "Page", r + 1)
        c == IF g = 0 THEN 0 ELSE FirstField(fields, "Contents", g + 1)
    IN  IF c = 0 THEN <<>>
        ELSE <<fields[r][2], fields[r][3], fields[r][4], fields[r][5],
               fields[g][2], fields[c][2], c + 1>>

UnescapeBackslashFirst(c) ==
    Replace(Replace(Replace(c, <<"\\", "\\">>, <<"\\">>),
                    <<"\\", "(">>, <<"(">>),
            <<"\\", ")">>, <<")">>)

\* line 37
Unescape(c) ==
    Replace(Replace(Replace(c, <<"\\", "(">>, <<"(">>),
                    <<"\\", ")">>, <<")">>),
            <<"\\", "\\">>, <<"\\">>)

\* max(y1, y2)
Max(a, b) == IF a >= b THEN a ELSE b

\* lines 32-33 and 43-46: page and note of a match, given its content
PageOfMatch(m) == m[5] + 1
NoteOfMatch(m, c) ==
    <<NoteTextOf(PageOfMatch(m), c), (m[1] + m[3]) \div 2, Max(m[2], m[4])>>

\* most records in the file
MaxRecords == 2
\* longest raw contents string in the content-rich inputs
MaxRawLen == 5

\* the contents of the escape example
ExampleRaw == <<"a", " ", "\\", "(", "n", "e", "s", "t", "e", "d", "\\", ")",
                " ", "b", "\\", "\\", "c">>

RectSamples == {<<0, 0, 2, 2>>, <<2, 4, 4, 2>>}

\* a record: its marker, and a rectangle, a page number and contents, each
\* present or not, in the order the pattern wants them
RecordOf(marker, rect, page, cont) ==
    <<<<marker>>>>
    \o (IF rect = <<>> THEN <<>> ELSE <<<<"Rect">> \o rect>>)
    \o (IF page < 0 THEN <<>> ELSE <<<<"Page", page>>>>)
    \o (IF cont = <<>> THEN <<>> ELSE <<<<"Contents", cont[1]>>>>)

\* Records: the i-th record has the contents str(i) when it has contents.
RecordsStart ==
    \E n \in 0..MaxRecords :
        \E f \in [1..n -> {"Highlight", "Other"} \X (RectSamples \cup {<<>>})
                          \X {-1, 0, 1} \X BOOLEAN] :
            fdf_data = [i \in 1..n |->
                           RecordOf(f[i][1], f[i][2], f[i][3],
                                    IF f[i][4] THEN <<Str(i)>> ELSE <<>>)]

\* Contents: one complete highlight record with any contents the contents
\* group can match over the letters \, (, ), a, or with the example.
RawContentsStart ==
    \/ \E k \in 0..MaxRawLen :
          \E c \in [1..k -> {"\\", "(", ")", "a"}] :
              /\ MatchesContents(c)
              /\ fdf_data = <<RecordOf("Highlight", <<0, 0, 2, 2>>, 0, <<c>>)>>
    \/ fdf_data = <<RecordOf("Highlight", <<0, 0, 2, 2>>, 0, <<ExampleRaw>>)>>

ParseStart ==
    /\ RecordsStart \/ RawContentsStart
    /\ pos = 1
    /\ match = <<>>
    /\ content = <<>>
    /\ parsed = <<>>
    /\ ppc = "next"

ParseIdle ==
    /\ fdf_data = <<>>
    /\ pos = 1
    /\ match = <<>>
    /\ content = <<>>
    /\ parsed = <<>>
    /\ ppc = "idle"

\* line 31: the iterator yields its next match
NextMatch ==
    /\ ppc = "next"
    /\ FindMatch(Flatten(fdf_data), pos) # <<>>
    /\ match' = SubSeq(FindMatch(Flatten(fdf_data), pos), 1, 6)
    /\ pos' = FindMatch(Flatten(fdf_data), pos)[7]
    /\ ppc' = "body"
    /\ UNCHANGED <<fdf_data, content, parsed, reorderVars, writeVars>>

\* lines 32-47
AppendNote ==
    /\ ppc = "body"
    /\ content' = Unescape(match[6])
    /\ parsed' = AddNote(parsed, PageOfMatch(match),
                         NoteOfMatch(match, Unescape(match[6])))
    /\ ppc' = "next"
    /\ UNCHANGED <<fdf_data, pos, match, reorderVars, writeVars>>

\* line 49: the iterator is exhausted
ParseReturn ==
    /\ ppc = "next"
    /\ FindMatch(Flatten(fdf_data), pos) = <<>>
    /\ ppc' = "returned"
    /\ UNCHANGED <<fdf_data, pos, match, content, parsed, reorderVars,
                   writeVars>>

----------------------------------------------------------------------------
(* Claims about parse_fdf_notes *)

\* the groups of a record that matches the pattern by itself, or <<>>
OwnMatch(record) == FindMatch(record, 1)

RECURSIVE NotesOfOwnMatches(_)
NotesOfOwnMatches(records) ==
    IF records = <<>> THEN <<>>
    ELSE LET m == OwnMatch(records[Len(records)])
             before == NotesOfOwnMatches(SubSeq(records, 1, Len(records) - 1))
         IN  IF m = <<>> THEN before
             ELSE AddNote(before, PageOfMatch(m), NoteOfMatch(m, Unescape(m[6])))

\* C8: the mapping parse_fdf_notes returns holds one note for every record
\* that matches the pattern by itself, made of that record's own fields, and
\* nothing for any other record.
C8_MalformedRecordSkipped ==
    ppc = "returned" => parsed = NotesOfOwnMatches(fdf_data)

\* each of the three escapes decoded once, in one scan from the left
RECURSIVE DecodeOnce(_)
DecodeOnce(s) ==
    IF s = <<>> THEN <<>>
    ELSE IF s[1] = "\\" /\ Len(s) >= 2 /\ s[2] \in {"(", ")", "\\"}
         THEN <<s[2]>> \o DecodeOnce(SubSeq(s, 3, Len(s)))
         ELSE <<s[1]>> \o DecodeOnce(Tail(s))

ExampleUnescaped == <<"a", " ", "(", "n", "e", "s", "t", "e", "d", ")",
                      " ", "b", "\\", "c">>

\* C10: the content a match is stored with is its contents group with each
\* escape \(, \), \\ decoded once in a single left-to-right scan; the example
\* `a \(nested\) b\\c` gives `a (nested) b\c`.
C10_UnescapeIsSingleScan ==
    (ppc = "next" /\ match # <<>>) =>
        /\ content = DecodeOnce(match[6])
        /\ (match[6] = ExampleRaw) => content = ExampleUnescaped
        /\ Get(parsed, PageOfMatch(match))
             [Len(Get(parsed, PageOfMatch(match)))][1]
               = NoteTextOf(PageOfMatch(match), DecodeOnce(match[6]))

\* a stored content whose contents group held a doubled backslash right
\* before an escaped or nested parenthesis
C10_Witness ==
    /\ ppc = "next"
    /\ match # <<>>
    /\ Len(match[6]) >= 3
    /\ \E k \in 1..(Len(match[6]) - 2) :
          /\ match[6][k] = "\\"
          /\ match[6][k + 1] = "\\"
          /\ match[6][k + 2] \in {"(", ")", "\\"}
    /\ content # match[6]

----------------------------------------------------------------------------
(* Specifications *)

NextReorder == Partition \/ SortColumns \/ Return

InitReorder == ReorderStart /\ WriteIdle /\ ParseIdle

SpecReorder == InitReorder /\ [][NextReorder]_vars

NextWrite ==
    Open \/ NextPage \/ WriteHeader \/ WriteNote \/ EndPage \/ EndLoop \/ Exit

InitWrite == WriteStart /\ ReorderIdle /\ ParseIdle

SpecWrite == InitWrite /\ [][NextWrite]_vars

NextParse == NextMatch \/ AppendNote \/ ParseReturn

InitParse == ParseStart /\ ReorderIdle /\ WriteIdle

SpecParse == InitParse /\ [][NextParse]_vars

====
